---- MODULE Spec2Model ----
(***************************************************************************)
(* The Hyper-Sensitive example of dymos: the ODE component                 *)
(* HyperSensitiveODE, the closed-form reference solution() and the driver  *)
(* script that builds, solves, simulates and asserts the problem.          *)
(*                                                                         *)
(* Spec runs one instance of the component through the steps of a          *)
(* component test (instantiate, setup, set the inputs, run, linearize);    *)
(* DriverSpec runs the driver script statement by statement.               *)
(*                                                                         *)
(* Numbers.  The component works on numpy float arrays.  Every quantity    *)
(* the model computes is a rational, kept exactly as a pair <<n, d>> in    *)
(* lowest terms with d > 0.  The reference solution also needs sqrt(2);    *)
(* it is computed in the field Q(sqrt 2), a number a + b*sqrt(2) being the *)
(* record [a |-> a, b |-> b] of two rationals.                             *)
(***************************************************************************)
EXTENDS Integers, Sequences, FiniteSets, TLC

(* ------------------------------- bounds -------------------------------- *)
\* largest num_nodes a component is instantiated with
MaxNodes == 2
\* input entries are drawn from { k/2 : k \in -1 .. MaxNum }
MaxNum == 1

(* --------------------------- exact rationals --------------------------- *)
Abs(n) == IF n < 0 THEN -n ELSE n

RECURSIVE GCD(_, _)
GCD(a, b) == IF b = 0 THEN a ELSE GCD(b, a % b)

\* the rational n/d in lowest terms, d # 0
Rat(n, d) ==
    LET common == GCD(Abs(n), Abs(d))
        sign == IF d < 0 THEN -1 ELSE 1
    IN  << (sign * n) \div common, (sign * d) \div common >>

RInt(k) == << k, 1 >>
RAdd(p, q) == Rat(p[1] * q[2] + q[1] * p[2], p[2] * q[2])
RNeg(p) == << -p[1], p[2] >>
RSub(p, q) == RAdd(p, RNeg(q))
RMul(p, q) == Rat(p[1] * q[1], p[2] * q[2])
RDiv(p, q) == Rat(p[1] * q[2], p[2] * q[1])
RSq(p) == RMul(p, p)

\* numpy's elementwise operations on arrays of equal length
VAdd(a, b) == [i \in DOMAIN a |-> RAdd(a[i], b[i])]
VNeg(a) == [i \in DOMAIN a |-> RNeg(a[i])]
VSq(a) == [i \in DOMAIN a |-> RSq(a[i])]
VDivInt(a, k) == [i \in DOMAIN a |-> RDiv(a[i], RInt(k))]

\* np.zeros(nn), np.arange(nn), and a scalar val broadcast over nn entries
zeros(nn) == [i \in 1 .. nn |-> RInt(0)]
arange(nn) == [i \in 1 .. nn |-> i - 1]
full(nn, v) == [i \in 1 .. nn |-> RInt(v)]

(* ---------------------- the reference solution() ----------------------- *)
\* numbers a + b*sqrt(2), a and b rational
SRat(r) == [a |-> r, b |-> RInt(0)]
SInt(k) == SRat(RInt(k))
SAdd(s, t) == [a |-> RAdd(s.a, t.a), b |-> RAdd(s.b, t.b)]
SNeg(s) == [a |-> RNeg(s.a), b |-> RNeg(s.b)]
SSub(s, t) == SAdd(s, SNeg(t))
SMul(s, t) ==
    [a |-> RAdd(RMul(s.a, t.a), RMul(RInt(2), RMul(s.b, t.b))),
     b |-> RAdd(RMul(s.a, t.b), RMul(s.b, t.a))]
\* num / den = num * conj(den) / (den.a^2 - 2 den.b^2), den # 0
SDiv(num, den) ==
    LET norm == RSub(RSq(den.a), RMul(RInt(2), RSq(den.b)))
        prod == SMul(num, [a |-> den.a, b |-> RNeg(den.b)])
    IN  [a |-> RDiv(prod.a, norm), b |-> RDiv(prod.b, norm)]
SSq(s) == SMul(s, s)

\* tf = np.float128(10)
tf == 10

\* np.sqrt(2)
sqrt_two == [a |-> RInt(0), b |-> RInt(1)]

\* np.exp(k * val) for val = sqrt_two * tf and k in {-2, -1, 1, 2}, where E
\* stands for np.exp(val): exp(-val) = 1/E, exp(2 val) = E^2, exp(-2 val) = 1/E^2
np_exp(k, E) ==
    CASE k = 1 -> SRat(E)
      [] k = -1 -> SRat(RDiv(RInt(1), E))
      [] k = 2 -> SRat(RSq(E))
      [] k = -2 -> SRat(RDiv(RInt(1), RSq(E)))

OnePointFive == SRat(Rat(3, 2))

\* solution(): the local c1
c1(E) ==
    SDiv(SSub(SMul(OnePointFive, np_exp(-1, E)), SInt(1)),
         SSub(np_exp(-1, E), np_exp(1, E)))

\* solution(): the local c2
c2(E) ==
    SDiv(SSub(SInt(1), SMul(OnePointFive, np_exp(1, E))),
         SSub(np_exp(-1, E), np_exp(1, E)))

\* solution(): ui
solution_ui(E) ==
    SAdd(SMul(c1(E), SAdd(SInt(1), sqrt_two)),
         SMul(c2(E), SSub(SInt(1), sqrt_two)))

\* solution(): uf
solution_uf(E) ==
    SAdd(SMul(SMul(c1(E), SAdd(SInt(1), sqrt_two)), np_exp(1, E)),
         SMul(SMul(c2(E), SSub(SInt(1), sqrt_two)), np_exp(-1, E)))

\* solution() with the boundary terms of J added instead of subtracted
solution_J_sign_slip(E) ==
    SMul(SRat(Rat(1, 2)),
         SAdd(SAdd(SAdd(SMul(SMul(SSq(c1(E)), SAdd(SInt(1), sqrt_two)), np_exp(2, E)),
                        SMul(SMul(SSq(c2(E)), SSub(SInt(1), sqrt_two)), np_exp(-2, E))),
                   SMul(SAdd(SInt(1), sqrt_two), SSq(c1(E)))),
              SMul(SSub(SInt(1), sqrt_two), SSq(c2(E)))))

\* solution(): J
solution_J(E) ==
    SMul(SRat(Rat(1, 2)),
         SSub(SSub(SAdd(SMul(SMul(SSq(c1(E)), SAdd(SInt(1), sqrt_two)), np_exp(2, E)),
                        SMul(SMul(SSq(c2(E)), SSub(SInt(1), sqrt_two)), np_exp(-2, E))),
                   SMul(SAdd(SInt(1), sqrt_two), SSq(c1(E)))),
              SMul(SSub(SInt(1), sqrt_two), SSq(c2(E)))))

\* solution(): the tuple returned
solution(E) == [ui |-> solution_ui(E), uf |-> solution_uf(E), J |-> solution_J(E)]

\* the values E = exp(sqrt_two * tf) is drawn from: halves above 1
EVals == { Rat(k, 2) : k \in 3 .. MaxNum + 3 }

(* ------------------------- HyperSensitiveODE --------------------------- *)
VARIABLES
    num_nodes,   \* self.options['num_nodes']
    io,          \* declared inputs and outputs: name -> [kind, val, desc]
    partials,    \* declared partials: <<of, wrt>> -> [rows, cols]
    inputs,      \* the component's input vectors, by name
    outputs,     \* the component's output vectors, by name
    jacobian,    \* the sub-Jacobian values, by <<of, wrt>>
    stage        \* how far the component's life has got

odeVars == << num_nodes, io, partials, inputs, outputs, jacobian, stage >>

VARIABLES
    pc,                    \* index in Script of the next statement; 0 when no script runs
    log,                   \* the calls made so far, in order
    raised,                \* an assertion has raised and ended the script
    grid,                  \* number of nodes of the phase's transcription
    time_options,          \* phase.set_time_options
    state_options,         \* phase.add_state, by state name
    control_options,       \* phase.add_control, by control name
    boundary_constraints,  \* phase.add_boundary_constraint
    objective,             \* phase.add_objective
    val,                   \* the problem's values: states, control and times
    success,               \* dm.run_problem ended on a feasible point
    ref,                   \* ui, uf, J returned by solution(), with the E used
    sim                    \* exp_out of traj.simulate(): the integrated states

scriptVars == << pc, log, raised, grid, time_options, state_options, control_options,
                 boundary_constraints, objective, val, success, ref, sim >>

\* the class attributes of HyperSensitiveODE
states == [x |-> [rate_source |-> "x_dot"], xL |-> [rate_source |-> "L"]]
parameters == [u |-> [targets |-> "u"]]

\* the values the framework feeds in: halves between -1/2 and MaxNum/2
Vals == { Rat(k, 2) : k \in -1 .. MaxNum }
Vecs(nn) == [1 .. nn -> Vals]
\* xL is never read by compute: it is fed the constant profiles only
FlatVecs(nn) == { [i \in 1 .. nn |-> v] : v \in Vals }

\* setup(): the inputs and outputs it adds
setup_io(nn) ==
    [x     |-> [kind |-> "input",  val |-> zeros(nn), desc |-> "state"],
     xL    |-> [kind |-> "input",  val |-> zeros(nn), desc |-> "cost_state"],
     u     |-> [kind |-> "input",  val |-> zeros(nn), desc |-> "control"],
     x_dot |-> [kind |-> "output", val |-> zeros(nn), desc |-> "state rate"],
     L     |-> [kind |-> "output", val |-> zeros(nn), desc |-> "Lagrangian"]]

\* setup(): the partials it declares, each with its sparsity pattern
DeclXdotX(nn) == [rows |-> arange(nn), cols |-> arange(nn)]
DeclXdotU(nn) == [rows |-> arange(nn), cols |-> arange(nn)]
DeclLX(nn) == [rows |-> arange(nn), cols |-> arange(nn)]
DeclLU(nn) == [rows |-> arange(nn), cols |-> arange(nn)]

setup_partials(nn) ==
    ( << "x_dot", "x" >> :> DeclXdotX(nn) ) @@
    ( << "x_dot", "u" >> :> DeclXdotU(nn) ) @@
    ( << "L", "x" >> :> DeclLX(nn) ) @@
    ( << "L", "u" >> :> DeclLU(nn) )

\* setup(): the values the declarations give the sub-Jacobians (val=-1,
\* val=1, and zero where no val is given)
setup_jacobian(nn) ==
    ( << "x_dot", "x" >> :> full(nn, -1) ) @@
    ( << "x_dot", "u" >> :> full(nn, 1) ) @@
    ( << "L", "x" >> :> zeros(nn) ) @@
    ( << "L", "u" >> :> zeros(nn) )

\* compute() with the sign of the rate slipped: x_dot = x - u
compute_sign_slip(in) ==
    [x_dot |-> VAdd(in.x, VNeg(in.u)),
     L     |-> VDivInt(VAdd(VSq(in.x), VSq(in.u)), 2)]

\* compute() with L reading the control of the neighbouring node
compute_neighbour(in) ==
    [x_dot |-> VAdd(VNeg(in.x), in.u),
     L     |-> VDivInt(VAdd(VSq(in.x),
                            VSq([i \in DOMAIN in.u |-> in.u[(i % Len(in.u)) + 1]])), 2)]

\* compute(): the outputs written for the given inputs
compute(in) ==
    LET x == in.x
        u == in.u
    IN  [x_dot |-> VAdd(VNeg(x), u),
         L     |-> VDivInt(VAdd(VSq(x), VSq(u)), 2)]

\* compute_partials() with the two sub-Jacobians of L swapped
compute_partials_swapped(in, jac) ==
    [jac EXCEPT ![<< "L", "x" >>] = in.u, ![<< "L", "u" >>] = in.x]

\* compute_partials(): the sub-Jacobians written for the given inputs; the
\* others keep what jac holds
compute_partials(in, jac) ==
    LET x == in.x
        u == in.u
    IN  [jac EXCEPT ![<< "L", "x" >>] = x, ![<< "L", "u" >>] = u]

OdeInit ==
    /\ num_nodes \in 1 .. MaxNodes
    /\ io = << >>
    /\ partials = << >>
    /\ inputs = << >>
    /\ outputs = << >>
    /\ jacobian = << >>
    /\ stage = "instantiated"

\* no driver script runs
NoScript ==
    /\ pc = 0
    /\ log = << >>
    /\ raised = FALSE
    /\ grid = 0
    /\ time_options = << >>
    /\ state_options = << >>
    /\ control_options = << >>
    /\ boundary_constraints = {}
    /\ objective = << >>
    /\ val = << >>
    /\ success = FALSE
    /\ ref = << >>
    /\ sim = << >>

\* the framework calls setup() once
Setup ==
    /\ stage = "instantiated"
    /\ io' = setup_io(num_nodes)
    /\ partials' = setup_partials(num_nodes)
    /\ inputs' = [x |-> zeros(num_nodes), xL |-> zeros(num_nodes), u |-> zeros(num_nodes)]
    /\ outputs' = [x_dot |-> zeros(num_nodes), L |-> zeros(num_nodes)]
    /\ jacobian' = setup_jacobian(num_nodes)
    /\ stage' = "setup"
    /\ UNCHANGED << num_nodes, scriptVars >>

\* the model inputs are set
SetInputs ==
    /\ stage = "setup"
    /\ \E x \in Vecs(num_nodes), u \in Vecs(num_nodes), xL \in FlatVecs(num_nodes) :
          inputs' = [x |-> x, xL |-> xL, u |-> u]
    /\ stage' = "inputs"
    /\ UNCHANGED << num_nodes, io, partials, outputs, jacobian, scriptVars >>

\* run_model(): the framework calls compute(inputs, outputs)
Compute ==
    /\ stage = "inputs"
    /\ outputs' = compute(inputs)
    /\ stage' = "computed"
    /\ UNCHANGED << num_nodes, io, partials, inputs, jacobian, scriptVars >>

\* linearization: the framework calls compute_partials(inputs, jacobian)
ComputePartials ==
    /\ stage = "computed"
    /\ jacobian' = compute_partials(inputs, jacobian)
    /\ stage' = "linearized"
    /\ UNCHANGED << num_nodes, io, partials, inputs, outputs, scriptVars >>

vars == << odeVars, scriptVars >>

(* -------------------------- the driver script -------------------------- *)
None == "None"

\* the statements of the script, in the order of the text
StmtProblem == [call |-> "Problem"]
StmtDriver == [call |-> "pyOptSparseDriver", optimizer |-> "SLSQP"]
StmtAddTraj == [call |-> "add_subsystem", name |-> "traj"]
StmtRadau == [call |-> "Radau", compressed |-> FALSE]
StmtAddPhase == [call |-> "add_phase", name |-> "phase0", ode_class |-> "HyperSensitiveODE"]
StmtTimeOptions == [call |-> "set_time_options", fix_initial |-> TRUE, fix_duration |-> TRUE]
\* add_state('x', ...) with the initial value left to the optimizer
StmtAddStateX_free_initial ==
    [call |-> "add_state", name |-> "x", fix_initial |-> FALSE, fix_final |-> FALSE,
     rate_source |-> "x_dot", targets |-> {"x"}]
StmtAddStateX ==
    [call |-> "add_state", name |-> "x", fix_initial |-> TRUE, fix_final |-> FALSE,
     rate_source |-> "x_dot", targets |-> {"x"}]
StmtAddStateXL ==
    [call |-> "add_state", name |-> "xL", fix_initial |-> TRUE, fix_final |-> FALSE,
     rate_source |-> "L", targets |-> {"xL"}]
StmtAddControl ==
    [call |-> "add_control", name |-> "u", opt |-> TRUE, targets |-> {"u"},
     lower |-> None, upper |-> None]
StmtBoundary ==
    [call |-> "add_boundary_constraint", name |-> "x", loc |-> "final", equals |-> RInt(1)]
StmtObjective == [call |-> "add_objective", name |-> "xL", loc |-> "final"]
StmtSetup == [call |-> "setup"]
StmtSetX == [call |-> "set_val", name |-> "x", interp |-> TRUE, ys |-> << Rat(3, 2), RInt(1) >>]
\* set_val of xL with a nonzero initial value
StmtSetXL_offset ==
    [call |-> "set_val", name |-> "xL", interp |-> TRUE, ys |-> << RInt(1), RInt(1) >>]
StmtSetXL == [call |-> "set_val", name |-> "xL", interp |-> TRUE, ys |-> << RInt(0), RInt(1) >>]
StmtSetTInitial == [call |-> "set_val", name |-> "t_initial", interp |-> FALSE, ys |-> << RInt(0) >>]
StmtSetTDuration == [call |-> "set_val", name |-> "t_duration", interp |-> FALSE, ys |-> << RInt(tf) >>]
StmtSetU == [call |-> "set_val", name |-> "u", interp |-> TRUE, ys |-> << Rat(-3, 5), Rat(12, 5) >>]
StmtRunProblem == [call |-> "run_problem"]
StmtSolution == [call |-> "solution"]
StmtSimulate == [call |-> "simulate"]
StmtPlot == [call |-> "plot_results"]
StmtShow == [call |-> "show"]
StmtAssertUi == [call |-> "assert_near_equal", actual |-> "u", at |-> "first", desired |-> "ui"]
StmtAssertUf == [call |-> "assert_near_equal", actual |-> "u", at |-> "last", desired |-> "uf"]
StmtAssertJ == [call |-> "assert_near_equal", actual |-> "xL", at |-> "last", desired |-> "J"]

\* the script with traj.simulate() moved before dm.run_problem(p)
Script_simulate_first ==
    << StmtProblem, StmtDriver, StmtAddTraj, StmtRadau, StmtAddPhase,
       StmtTimeOptions, StmtAddStateX, StmtAddStateXL, StmtAddControl,
       StmtBoundary, StmtObjective, StmtSetup,
       StmtSetX, StmtSetXL, StmtSetTInitial, StmtSetTDuration, StmtSetU,
       StmtSimulate, StmtRunProblem, StmtSolution, StmtPlot, StmtShow,
       StmtAssertUi, StmtAssertUf, StmtAssertJ >>

Script ==
    << StmtProblem, StmtDriver, StmtAddTraj, StmtRadau, StmtAddPhase,
       StmtTimeOptions, StmtAddStateX, StmtAddStateXL, StmtAddControl,
       StmtBoundary, StmtObjective, StmtSetup,
       StmtSetX, StmtSetXL, StmtSetTInitial, StmtSetTDuration, StmtSetU,
       StmtRunProblem, StmtSolution, StmtSimulate, StmtPlot, StmtShow,
       StmtAssertUi, StmtAssertUf, StmtAssertJ >>

Cur == Script[pc]
At(c) == /\ ~raised
         /\ pc \in DOMAIN Script
         /\ Cur.call = c
\* the statement returns and the script goes on to the next one
Advance == /\ pc' = pc + 1
           /\ log' = Append(log, Cur.call)

\* the phase's variables and the values the optimizer tries for them
PhaseVars == {"x", "xL", "u"}
DVals == { Rat(k, 2) : k \in 1 .. MaxNum + 2 }
TVals == { RInt(0), RInt(1), RInt(tf) }

\* phase.interp(name, [y0, y1]): the line from y0 at the first node to y1
\* at the last, at n equally spaced nodes
interp(ys, n) ==
    [k \in 1 .. n |->
        RAdd(ys[1], RMul(RSub(ys[2], ys[1]), Rat(k - 1, n - 1)))]

\* the ODE inputs fed from the phase's values v through the declared targets
Feed(v, sopts, copts) ==
    LET opts == sopts @@ copts
    IN  [n \in {"x", "xL", "u"} |->
            LET srcs == { w \in DOMAIN opts : n \in opts[w].targets }
            IN  IF srcs = {} THEN zeros(Len(v.x)) ELSE v[CHOOSE w \in srcs : TRUE]]

\* whether entry k of phase variable w is left to the optimizer
IsDesignVar(w, k) ==
    IF w \in DOMAIN state_options
    THEN /\ ~(k = 1 /\ state_options[w].fix_initial)
         /\ ~(k = grid /\ state_options[w].fix_final)
    ELSE w \in DOMAIN control_options /\ control_options[w].opt

\* the value of a variable at a boundary of the phase
AtLoc(v, w, loc) == IF loc = "initial" THEN v[w][1] ELSE v[w][Len(v[w])]

\* a point satisfies every boundary constraint of the phase
Feasible(v) ==
    \A bc \in boundary_constraints : AtLoc(v, bc.name, bc.loc) = bc.equals

\* a control value respects the control's bounds, when it has any
InBounds(w, q) ==
    w \in DOMAIN control_options =>
        /\ control_options[w].lower # None => q[1] * control_options[w].lower[2]
                                                >= control_options[w].lower[1] * q[2]
        /\ control_options[w].upper # None => q[1] * control_options[w].upper[2]
                                                <= control_options[w].upper[1] * q[2]

\* the values the optimizer may give entry k of w: any value when the entry
\* is a design variable, the value it holds otherwise
EndTrials(w, k) ==
    IF IsDesignVar(w, k) THEN { q \in DVals : InBounds(w, q) } ELSE { val[w][k] }

\* the profiles the optimizer may end on for w: it moves the design
\* variables only.  The profiles tried are the lines between a first and a
\* last value.
Trials(w) ==
    IF \A k \in 1 .. grid : ~IsDesignVar(w, k) THEN { val[w] }
    ELSE { interp(<< y0, y1 >>, grid) : y0 \in EndTrials(w, 1), y1 \in EndTrials(w, grid) }
TimeTrials(name, fixed) == IF fixed THEN { val[name] } ELSE TVals

\* traj.simulate(): the states integrated forward from their initial values
\* over the grid's steps, the rates taken from the ODE by their rate_source
RECURSIVE Integrate(_, _)
Integrate(k, dt) ==
    IF k = 1 THEN [x |-> << val.x[1] >>, xL |-> << val.xL[1] >>]
    ELSE LET prev == Integrate(k - 1, dt)
             here == [x |-> << prev.x[k - 1] >>, xL |-> << prev.xL[k - 1] >>,
                      u |-> << val.u[k - 1] >>]
             rates == compute(Feed(here, state_options, control_options))
         IN  [w \in {"x", "xL"} |->
                Append(prev[w],
                       RAdd(prev[w][k - 1],
                            RMul(dt, rates[state_options[w].rate_source][1])))]

DriverInit ==
    /\ num_nodes = 0
    /\ io = << >>
    /\ partials = << >>
    /\ inputs = << >>
    /\ outputs = << >>
    /\ jacobian = << >>
    /\ stage = "class"
    /\ pc = 1
    /\ log = << >>
    /\ raised = FALSE
    /\ grid = 0
    /\ time_options = << >>
    /\ state_options = << >>
    /\ control_options = << >>
    /\ boundary_constraints = {}
    /\ objective = << >>
    /\ val = << >>
    /\ success = FALSE
    /\ ref = << >>
    /\ sim = << >>

phaseVars == << time_options, state_options, control_options, boundary_constraints, objective >>
runVars == << val, success, ref, sim >>

\* p = om.Problem(model=om.Group())
Problem ==
    /\ At("Problem") /\ Advance
    /\ UNCHANGED << odeVars, raised, grid, phaseVars, runVars >>

\* p.driver = om.pyOptSparseDriver() and its options
Driver ==
    /\ At("pyOptSparseDriver") /\ Advance
    /\ UNCHANGED << odeVars, raised, grid, phaseVars, runVars >>

\* traj = p.model.add_subsystem('traj', dm.Trajectory())
AddTraj ==
    /\ At("add_subsystem") /\ Advance
    /\ UNCHANGED << odeVars, raised, grid, phaseVars, runVars >>

\* transcription = dm.Radau(num_segments=30, order=3, compressed=False): the
\* grid of nodes.  The 30 segments are stood for by a grid of 2 .. MaxNodes
\* equally spaced nodes, the first at t_initial and the last at
\* t_initial + t_duration.
Radau ==
    /\ At("Radau") /\ Advance
    /\ grid' \in 2 .. MaxNodes
    /\ UNCHANGED << odeVars, raised, phaseVars, runVars >>

\* phase = traj.add_phase('phase0', dm.Phase(ode_class=HyperSensitiveODE, ...))
AddPhase ==
    /\ At("add_phase") /\ Advance
    /\ UNCHANGED << odeVars, raised, grid, phaseVars, runVars >>

\* phase.set_time_options(fix_initial=True, fix_duration=True)
SetTimeOptions ==
    /\ At("set_time_options") /\ Advance
    /\ time_options' = [fix_initial |-> Cur.fix_initial, fix_duration |-> Cur.fix_duration]
    /\ UNCHANGED << odeVars, raised, grid, state_options, control_options,
                    boundary_constraints, objective, runVars >>

\* phase.add_state(name, fix_initial=, fix_final=, rate_source=, targets=)
AddState ==
    /\ At("add_state") /\ Advance
    /\ state_options' = state_options @@
          (Cur.name :> [fix_initial |-> Cur.fix_initial, fix_final |-> Cur.fix_final,
                        rate_source |-> Cur.rate_source, targets |-> Cur.targets])
    /\ UNCHANGED << odeVars, raised, grid, time_options, control_options,
                    boundary_constraints, objective, runVars >>

\* phase.add_control(name, opt=, targets=)
AddControl ==
    /\ At("add_control") /\ Advance
    /\ control_options' = control_options @@
          (Cur.name :> [opt |-> Cur.opt, targets |-> Cur.targets,
                        lower |-> Cur.lower, upper |-> Cur.upper])
    /\ UNCHANGED << odeVars, raised, grid, time_options, state_options,
                    boundary_constraints, objective, runVars >>

\* phase.add_boundary_constraint(name, loc=, equals=)
AddBoundaryConstraint ==
    /\ At("add_boundary_constraint") /\ Advance
    /\ boundary_constraints' = boundary_constraints \cup
          { [name |-> Cur.name, loc |-> Cur.loc, equals |-> Cur.equals] }
    /\ UNCHANGED << odeVars, raised, grid, time_options, state_options,
                    control_options, objective, runVars >>

\* phase.add_objective(name, loc=)
AddObjective ==
    /\ At("add_objective") /\ Advance
    /\ objective' = [name |-> Cur.name, loc |-> Cur.loc]
    /\ UNCHANGED << odeVars, raised, grid, time_options, state_options,
                    control_options, boundary_constraints, runVars >>

\* p.setup(check=True): the phase instantiates its ODE with num_nodes = the
\* grid's nodes and the framework calls setup() on it
PSetup ==
    /\ At("setup") /\ Advance
    /\ num_nodes' = grid
    /\ io' = setup_io(grid)
    /\ partials' = setup_partials(grid)
    /\ inputs' = [x |-> zeros(grid), xL |-> zeros(grid), u |-> zeros(grid)]
    /\ outputs' = [x_dot |-> zeros(grid), L |-> zeros(grid)]
    /\ jacobian' = setup_jacobian(grid)
    /\ stage' = "setup"
    /\ val' = [x |-> zeros(grid), xL |-> zeros(grid), u |-> zeros(grid),
               t_initial |-> RInt(0), t_duration |-> RInt(0)]
    /\ UNCHANGED << raised, grid, phaseVars, success, ref, sim >>

\* p.set_val(name, value)
SetVal ==
    /\ At("set_val") /\ Advance
    /\ val' = [val EXCEPT ![Cur.name] =
                  IF Cur.interp THEN interp(Cur.ys, grid) ELSE Cur.ys[1]]
    /\ UNCHANGED << odeVars, raised, grid, phaseVars, success, ref, sim >>

\* dm.run_problem(p): the optimizer ends on some point; it has moved the
\* design variables only, the ODE has been evaluated and linearized there.
\* success tells whether the point meets the boundary constraints; the
\* collocation defects, which the optimizer also drives to zero, are not
\* computed, so success admits more points than the optimizer does.
RunProblem ==
    /\ At("run_problem") /\ Advance
    /\ \E x \in Trials("x"), xL \in Trials("xL"), u \in Trials("u"),
          t0 \in TimeTrials("t_initial", time_options.fix_initial),
          td \in TimeTrials("t_duration", time_options.fix_duration) :
          /\ val' = [x |-> x, xL |-> xL, u |-> u, t_initial |-> t0, t_duration |-> td]
          /\ inputs' = Feed(val', state_options, control_options)
          /\ outputs' = compute(inputs')
          /\ jacobian' = compute_partials(inputs', jacobian)
          /\ success' = Feasible(val')
    /\ stage' = "linearized"
    /\ UNCHANGED << num_nodes, io, partials, raised, grid, phaseVars, ref, sim >>

\* ui, uf, J = solution()
Solution ==
    /\ At("solution") /\ Advance
    /\ \E ev \in EVals : ref' = [E |-> ev] @@ solution(ev)
    /\ UNCHANGED << odeVars, raised, grid, phaseVars, val, success, sim >>

\* exp_out = traj.simulate()
Simulate ==
    /\ At("simulate") /\ Advance
    /\ sim' = Integrate(grid, RDiv(val.t_duration, RInt(grid - 1)))
    /\ UNCHANGED << odeVars, raised, grid, phaseVars, val, success, ref >>

\* plot_results(...)
Plot ==
    /\ At("plot_results") /\ Advance
    /\ UNCHANGED << odeVars, raised, grid, phaseVars, runVars >>

\* plt.show()
Show ==
    /\ At("show") /\ Advance
    /\ UNCHANGED << odeVars, raised, grid, phaseVars, runVars >>

\* assert_near_equal(actual, desired, tolerance): it reads the problem's
\* value and the reference and either returns or raises.  Which of the two
\* depends on the optimizer's numerical result, which is not computed here.
AssertNearEqual ==
    /\ At("assert_near_equal")
    /\ log' = Append(log, Cur.call)
    /\ \/ pc' = pc + 1 /\ raised' = FALSE
       \/ pc' = pc /\ raised' = TRUE
    /\ UNCHANGED << odeVars, grid, phaseVars, runVars >>

Init == OdeInit /\ NoScript

Next == Setup \/ SetInputs \/ Compute \/ ComputePartials

\* the component under the test steps: instantiate, setup, set the inputs,
\* run the model, linearize
Spec == Init /\ [][Next]_vars

DriverNext ==
    \/ Problem \/ Driver \/ AddTraj \/ Radau \/ AddPhase
    \/ SetTimeOptions \/ AddState \/ AddControl \/ AddBoundaryConstraint \/ AddObjective
    \/ PSetup \/ SetVal \/ RunProblem \/ Solution \/ Simulate \/ Plot \/ Show
    \/ AssertNearEqual

\* the driver script, run from its first statement
DriverSpec == DriverInit /\ [][DriverNext]_vars

(* --------------------- properties of the component --------------------- *)
Nodes == 1 .. num_nodes

\* n/m = -x + u for rationals x = a/b and u = c/d, in integer arithmetic
IsRate(r, x, u) ==
    r[1] * x[2] * u[2] = r[2] * (u[1] * x[2] - x[1] * u[2])

\* 2 * (n/m) = x^2 + u^2, in integer arithmetic
IsLagrangian(l, x, u) ==
    2 * l[1] * x[2] * x[2] * u[2] * u[2]
        = l[2] * (x[1] * x[1] * u[2] * u[2] + u[1] * u[1] * x[2] * x[2])

\* C1: once compute has run, both outputs have num_nodes entries and at
\* every node i  x_dot[i] = -x[i] + u[i]  and  2*L[i] = x[i]^2 + u[i]^2.
C1_ComputeValues ==
    stage \in {"computed", "linearized"} =>
        /\ Len(outputs.x_dot) = num_nodes
        /\ Len(outputs.L) = num_nodes
        /\ Len(inputs.x) = num_nodes /\ Len(inputs.u) = num_nodes
        /\ \A i \in Nodes :
              /\ IsRate(outputs.x_dot[i], inputs.x[i], inputs.u[i])
              /\ IsLagrangian(outputs.L[i], inputs.x[i], inputs.u[i])

C1_Witness ==
    /\ stage = "computed"
    /\ num_nodes = 2
    /\ inputs.x[1] = Rat(-1, 2) /\ inputs.u[1] = Rat(1, 2)
    /\ inputs.x[2] = Rat(1, 2) /\ inputs.u[2] = RInt(0)
    /\ outputs.x_dot = << RInt(1), Rat(-1, 2) >>
    /\ outputs.L = << Rat(1, 4), Rat(1, 8) >>

\* the inputs with entry i of input `name` moved by d
perturb(in, name, i, d) == [in EXCEPT ![name][i] = RAdd(@, d)]

\* check_partials: the central difference (f(v+h) - f(v-h)) / (2h) of
\* compute's output of[i] with respect to the input wrt[i]
central_difference(of, wrt, i, h) ==
    RDiv(RSub(compute(perturb(inputs, wrt, i, h))[of][i],
              compute(perturb(inputs, wrt, i, RNeg(h)))[of][i]),
         RMul(RInt(2), h))

Steps == { Rat(1, 4), Rat(1, 2), RInt(1) }

\* C2: once compute_partials has run, the supplied Jacobian is at every
\* node  d x_dot/d x = -1, d x_dot/d u = 1, d L/d x = x, d L/d u = u, and
\* each entry equals the central difference of what compute calculates.
C2_AnalyticJacobian ==
    stage = "linearized" =>
        \A i \in Nodes :
            /\ jacobian[<< "x_dot", "x" >>][i] = RInt(-1)
            /\ jacobian[<< "x_dot", "u" >>][i] = RInt(1)
            /\ jacobian[<< "L", "x" >>][i] = inputs.x[i]
            /\ jacobian[<< "L", "u" >>][i] = inputs.u[i]
            /\ \A h \in Steps :
                  \A of \in {"x_dot", "L"}, wrt \in {"x", "u"} :
                      jacobian[<< of, wrt >>][i] = central_difference(of, wrt, i, h)

C2_Witness ==
    /\ stage = "linearized"
    /\ num_nodes = 2
    /\ inputs.x = << Rat(1, 2), Rat(-1, 2) >>
    /\ inputs.u = << RInt(0), Rat(1, 2) >>
    /\ jacobian[<< "L", "x" >>] = << Rat(1, 2), Rat(-1, 2) >>
    /\ jacobian[<< "L", "u" >>] = << RInt(0), Rat(1, 2) >>
    /\ jacobian[<< "x_dot", "x" >>] = << RInt(-1), RInt(-1) >>

\* entry r of output `of` changes when entry c of input `wrt` is changed
\* from its present value (outputs holds compute's result for inputs)
Depends(of, wrt, r, c) ==
    \E a \in Vals :
        compute([inputs EXCEPT ![wrt][c] = a])[of][r] # outputs[of][r]

\* the declared partials hold an entry for (of[r], wrt[c])
Declared(of, wrt, r, c) ==
    /\ << of, wrt >> \in DOMAIN partials
    /\ \E k \in DOMAIN partials[<< of, wrt >>].rows :
          /\ partials[<< of, wrt >>].rows[k] = r - 1
          /\ partials[<< of, wrt >>].cols[k] = c - 1

\* C10: the declared partials are the diagonals (rows = cols = arange(nn))
\* of (x_dot,x), (x_dot,u), (L,x), (L,u), none is declared with respect to
\* xL, and once compute has run, entry r of an output changes with entry c
\* of an input exactly when a partial is declared for that pair of entries.
C10_SparsityIsDependency ==
    /\ stage # "instantiated" =>
          /\ DOMAIN partials = { << "x_dot", "x" >>, << "x_dot", "u" >>,
                                 << "L", "x" >>, << "L", "u" >> }
          /\ \A pq \in DOMAIN partials :
                /\ partials[pq].rows = arange(num_nodes)
                /\ partials[pq].cols = arange(num_nodes)
    /\ stage = "computed" =>
          \A of \in {"x_dot", "L"}, wrt \in {"x", "xL", "u"} :
              \A r \in Nodes, c \in Nodes :
                  Depends(of, wrt, r, c) <=> Declared(of, wrt, r, c)

C10_Witness ==
    /\ stage = "computed"
    /\ num_nodes = 2
    /\ inputs.xL = << Rat(1, 2), Rat(1, 2) >>
    /\ inputs.x = << Rat(1, 2), RInt(0) >>
    /\ inputs.u = << RInt(0), Rat(-1, 2) >>
    /\ Depends("L", "x", 2, 2) /\ ~Depends("L", "x", 1, 2)
    /\ ~Depends("L", "xL", 1, 1)

(* ----------------------- properties of the script ---------------------- *)
Called(c) == \E i \in DOMAIN log : log[i] = c

\* C5: once dm.run_problem has returned, the phase holds the documented
\* boundary conditions: initial time and duration are fixed (not design
\* variables) at 0 and tf, x is fixed at its initial node at 1.5 and free at
\* its final node, a boundary constraint forces final x to 1, u is an
\* unbounded design variable; and a point the optimizer ends on as feasible
\* has x = 1.5 at the first node and x = 1 at the last.
C5_BoundaryConditions ==
    Called("run_problem") =>
        /\ time_options.fix_initial /\ time_options.fix_duration
        /\ val.t_initial = RInt(0) /\ val.t_duration = RInt(10)
        /\ state_options["x"].fix_initial /\ ~state_options["x"].fix_final
        /\ ~IsDesignVar("x", 1) /\ IsDesignVar("x", grid)
        /\ val.x[1] = Rat(3, 2)
        /\ [name |-> "x", loc |-> "final", equals |-> RInt(1)] \in boundary_constraints
        /\ control_options["u"].opt
        /\ control_options["u"].lower = None /\ control_options["u"].upper = None
        /\ \A k \in 1 .. grid : IsDesignVar("u", k)
        /\ success => val.x[1] = Rat(3, 2) /\ val.x[grid] = RInt(1)

C5_Witness ==
    /\ Called("run_problem")
    /\ success
    /\ val.x = << Rat(3, 2), RInt(1) >>
    /\ val.u = << Rat(1, 2), Rat(3, 2) >>

\* the sum over the first k steps of dt * (x^2 + u^2) / 2 along the
\* simulated trajectory
RECURSIVE CostSum(_, _)
CostSum(k, dt) ==
    IF k = 0 THEN RInt(0)
    ELSE RAdd(CostSum(k - 1, dt),
              RMul(dt, RMul(Rat(1, 2), RAdd(RSq(sim.x[k]), RSq(val.u[k])))))

\* C6: the objective is the final value of xL, whose rate is the ODE output
\* L and whose initial value is fixed at 0; so along the simulated
\* trajectory the final xL is the accumulated (x^2 + u^2)/2 over [0, tf],
\* with no offset.
C6_ObjectiveIsCost ==
    Called("simulate") =>
        /\ objective = [name |-> "xL", loc |-> "final"]
        /\ state_options["xL"].rate_source = "L"
        /\ state_options["xL"].fix_initial
        /\ val.xL[1] = RInt(0)
        /\ sim.xL[1] = RInt(0)
        /\ Len(sim.xL) = grid
        /\ sim.xL[grid] = CostSum(grid - 1, RDiv(RInt(10), RInt(grid - 1)))

C6_Witness ==
    /\ Called("simulate")
    /\ val.u[1] = Rat(1, 2)
    /\ sim.x[1] = Rat(3, 2)
    /\ sim.xL = << RInt(0), Rat(25, 2) >>

\* Laurent polynomials in y = e^(sqrt(2) t) with coefficients in Q(sqrt 2),
\* as the tuple of the coefficients of y^-2, y^-1, 1, y, y^2
Exps == -2 .. 2
SZero == SInt(0)
Coef(f, e) == f[e + 3]
Poly(F(_)) == << F(-2), F(-1), F(0), F(1), F(2) >>
Mono(coef, k) == Poly(LAMBDA e : IF e = k THEN coef ELSE SZero)
PAdd(f, g) == Poly(LAMBDA e : SAdd(Coef(f, e), Coef(g, e)))
PScale(coef, f) == Poly(LAMBDA e : SMul(coef, Coef(f, e)))
\* the sum of the five coefficients of f
PSum(f) == SAdd(f[1], SAdd(f[2], SAdd(f[3], SAdd(f[4], f[5]))))
\* the product, for factors whose product has no exponent outside Exps
PMul(f, g) ==
    Poly(LAMBDA e :
        PSum(Poly(LAMBDA i : IF e - i \in Exps THEN SMul(Coef(f, i), Coef(g, e - i))
                                              ELSE SZero)))
\* d/dt of y^e is e * sqrt(2) * y^e
PDeriv(f) == Poly(LAMBDA e : SMul(SMul(SInt(e), sqrt_two), Coef(f, e)))
\* y^e for a rational y and e in Exps
RPow(y, e) ==
    CASE e = 0 -> RInt(1)
      [] e = 1 -> y
      [] e = 2 -> RMul(y, y)
      [] e = -1 -> RDiv(RInt(1), y)
      [] e = -2 -> RDiv(RInt(1), RMul(y, y))
\* the value of f where y = e^(sqrt(2) t) is the rational y
PEval(f, y) == PSum(Poly(LAMBDA e : SMul(Coef(f, e), SRat(RPow(y, e)))))
\* the integral of f over [0, T], E being the value of y at T: each y^e,
\* e # 0, integrates to (E^e - 1) / (e sqrt 2), the constant term to T
PIntegral(f, E, T) ==
    PSum(Poly(LAMBDA e :
            IF e = 0 THEN SMul(Coef(f, 0), SInt(T))
            ELSE SMul(SDiv(Coef(f, e), SMul(SInt(e), sqrt_two)),
                      SRat(RSub(RPow(E, e), RInt(1))))))

\* the documented optimum: c1, c2, x*(t), u*(t) = dx*/dt + x*, and the
\* integrand (x*^2 + u*^2) / 2
doc_c1(E) ==
    RDiv(RSub(RDiv(Rat(3, 2), E), RInt(1)), RSub(RDiv(RInt(1), E), E))
doc_c2(E) ==
    RDiv(RSub(RInt(1), RMul(Rat(3, 2), E)), RSub(RDiv(RInt(1), E), E))
x_star(E) == PAdd(Mono(SRat(doc_c1(E)), 1), Mono(SRat(doc_c2(E)), -1))
u_star(xs) == PAdd(PDeriv(xs), xs)
L_star(xs, us) == PScale(SRat(Rat(1, 2)), PAdd(PMul(xs, xs), PMul(us, us)))

\* C7: what solution() returns is the documented optimum: its c1 and c2 are
\* the documented ones, x* meets both boundary conditions (c1 + c2 = 1.5,
\* c1 E + c2 / E = 1), ui = u*(0), uf = u*(tf), and J is the integral of
\* (x*^2 + u*^2)/2 over [0, tf].
C7_ReferenceIsOptimum ==
    (log # << >> /\ log[Len(log)] = "solution") =>
        /\ c1(ref.E) = SRat(doc_c1(ref.E))
        /\ c2(ref.E) = SRat(doc_c2(ref.E))
        /\ SAdd(c1(ref.E), c2(ref.E)) = SRat(Rat(3, 2))
        /\ SAdd(SMul(c1(ref.E), SRat(ref.E)), SDiv(c2(ref.E), SRat(ref.E))) = SInt(1)
        /\ \A xs \in { x_star(ref.E) } :
              /\ PEval(xs, RInt(1)) = SRat(Rat(3, 2))
              /\ PEval(xs, ref.E) = SInt(1)
              /\ \A us \in { u_star(xs) } :
                    /\ ref.ui = PEval(us, RInt(1))
                    /\ ref.uf = PEval(us, ref.E)
                    /\ \A ls \in { L_star(xs, us) } :
                          ref.J = PIntegral(ls, ref.E, tf)

C7_Witness ==
    /\ log # << >> /\ log[Len(log)] = "solution"
    /\ ref.E = RInt(2)
    /\ ref.ui = [a |-> Rat(3, 2), b |-> Rat(-7, 6)]
    /\ ref.uf = [a |-> RInt(1), b |-> Rat(-1, 3)]
    /\ ref.J = [a |-> Rat(-5, 8), b |-> Rat(17, 24)]

\* the step of the script a call belongs to
Rank(c) ==
    CASE c \in {"Problem", "pyOptSparseDriver"} -> 1
      [] c \in {"add_subsystem", "Radau", "add_phase", "set_time_options", "add_state",
                "add_control", "add_boundary_constraint", "add_objective"} -> 2
      [] c = "setup" -> 3
      [] c = "set_val" -> 4
      [] c = "run_problem" -> 5
      [] c = "solution" -> 6
      [] c = "simulate" -> 7
      [] c \in {"plot_results", "show"} -> 8
      [] c = "assert_near_equal" -> 9

Before(a, b) == \A j \in DOMAIN log : log[j] = b => \E i \in 1 .. j - 1 : log[i] = a
Once(c) == Cardinality({ i \in DOMAIN log : log[i] = c }) <= 1

\* C8: the calls are made in the order create, declare, setup, set_val,
\* run_problem, simulate, plot, assert, in every execution: a set_val has
\* p.setup before it, no declaration follows p.setup, traj.simulate has
\* dm.run_problem before it and so has every assertion; and a script that
\* has run to its end has made every one of these steps.
C8_ScriptOrder ==
    /\ \A i, j \in DOMAIN log : i < j => Rank(log[i]) <= Rank(log[j])
    /\ Once("setup") /\ Once("run_problem") /\ Once("simulate")
    /\ Before("setup", "set_val")
    /\ Before("run_problem", "simulate")
    /\ Before("run_problem", "assert_near_equal")
    /\ Before("simulate", "plot_results")
    /\ Before("add_objective", "setup")
    /\ pc > Len(Script) => \A r \in 1 .. 9 : \E i \in DOMAIN log : Rank(log[i]) = r

C8_Witness ==
    /\ pc = Len(Script) + 1
    /\ ~raised
    /\ Len(log) = Len(Script)
    /\ log[Len(log)] = "assert_near_equal"
    /\ Called("simulate") /\ Called("run_problem") /\ Called("set_val")

\* the role the class attributes of HyperSensitiveODE give a variable, and
\* the role the phase gives it
ClassRole(w) ==
    IF w \in DOMAIN states THEN "state"
    ELSE IF w \in DOMAIN parameters THEN "parameter" ELSE "none"
PhaseRole(w) ==
    IF w \in DOMAIN state_options THEN "state"
    ELSE IF w \in DOMAIN control_options THEN "control" ELSE "none"
DeclaredIO(kind) == { n \in DOMAIN io : io[n].kind = kind }

\* C9: once p.setup has run, every rate_source of the phase is an output the
\* ODE declares, every target is an input it declares, and the class
\* attributes of the ODE give each variable the same role, rate_source and
\* targets as the phase does.
C9_WiringConsistent ==
    Called("setup") =>
        /\ \A s \in DOMAIN state_options :
              /\ state_options[s].rate_source \in DeclaredIO("output")
              /\ state_options[s].targets \subseteq DeclaredIO("input")
        /\ \A c \in DOMAIN control_options :
              control_options[c].targets \subseteq DeclaredIO("input")
        /\ \A s \in DOMAIN state_options :
              s \in DOMAIN states => states[s].rate_source = state_options[s].rate_source
        /\ \A c \in DOMAIN control_options :
              c \in DOMAIN parameters => {parameters[c].targets} = control_options[c].targets
        /\ \A w \in PhaseVars : ClassRole(w) = PhaseRole(w)

====
